---- MODULE Spec2Model ----
(***************************************************************************)
(* Model of sanic/headers.py: Accept parsing and content negotiation,      *)
(* Forwarded / X-Forwarded-* proxy header resolution, normalization.       *)
(*                                                                         *)
(* A Python str is a sequence of one-character strings and an object is a  *)
(* record.  None is NoneStr where a str is expected and the record None    *)
(* where an object is.  The outcome of a call is a record: Return(value),  *)
(* ReturnNone or Raise(exception name).  An int is the tagged sequence     *)
(* <<"int">> \o its decimal digits; a float is a record [nan, v] with v in *)
(* thousandths.                                                            *)
(***************************************************************************)
EXTENDS Integers, Sequences, FiniteSets, TLC

VARIABLES fn, args, result, statuslines, workers

vars == <<fn, args, result, statuslines, workers>>

(***************************************************************************)
(* Python values                                                           *)
(***************************************************************************)
None == [none |-> TRUE]

NoneStr == <<"None">>

Pending == [kind |-> "pending"]

Raise(exc) == [kind |-> "raise", exc |-> exc]

Return(val) == [kind |-> "return", val |-> val]

ReturnNone == [kind |-> "none"]

IsRaise(r) == r.kind = "raise"

IsNone(r) == r.kind = "none"

(***************************************************************************)
(* str methods                                                             *)
(***************************************************************************)
Whitespace == {" "}

Digits == {"0", "1", "2", "3", "4", "5", "6", "7", "8", "9"}

UpperCase ==
  <<"A", "B", "C", "D", "E", "F", "G", "H", "I", "J", "K", "L", "M",
    "N", "O", "P", "Q", "R", "S", "T", "U", "V", "W", "X", "Y", "Z">>

LowerCase ==
  <<"a", "b", "c", "d", "e", "f", "g", "h", "i", "j", "k", "l", "m",
    "n", "o", "p", "q", "r", "s", "t", "u", "v", "w", "x", "y", "z">>

LowerChar(c) ==
  IF \E i \in 1..Len(UpperCase) : UpperCase[i] = c
    THEN LowerCase[CHOOSE i \in 1..Len(UpperCase) : UpperCase[i] = c]
    ELSE c

lower(s) == [i \in 1..Len(s) |-> LowerChar(s[i])]

RECURSIVE lstrip(_)
lstrip(s) ==
  IF s # <<>> /\ Head(s) \in Whitespace THEN lstrip(Tail(s)) ELSE s

RECURSIVE rstrip(_)
rstrip(s) ==
  IF s # <<>> /\ s[Len(s)] \in Whitespace
    THEN rstrip(SubSeq(s, 1, Len(s) - 1))
    ELSE s

strip(s) == rstrip(lstrip(s))

reversed(s) == [i \in 1..Len(s) |-> s[Len(s) + 1 - i]]

\* s.find(c) for a one-character c, 1-based; 0 when c does not occur
RECURSIVE FindFrom(_, _, _)
FindFrom(s, c, i) ==
  IF i > Len(s) THEN 0
  ELSE IF s[i] = c THEN i
  ELSE FindFrom(s, c, i + 1)

find(s, c) == FindFrom(s, c, 1)

\* s.split(c): the list of the pieces between the occurrences of c
RECURSIVE split(_, _)
split(s, c) ==
  LET p == find(s, c) IN
    IF p = 0 THEN <<s>>
    ELSE <<SubSeq(s, 1, p - 1)>> \o split(SubSeq(s, p + 1, Len(s)), c)

\* s.split(c, 1): at most two pieces
split1(s, c) ==
  LET p == find(s, c) IN
    IF p = 0 THEN <<s>>
    ELSE <<SubSeq(s, 1, p - 1), SubSeq(s, p + 1, Len(s))>>

\* sub in s
contains(s, sub) ==
  \E i \in 1..(Len(s) - Len(sub) + 1) : SubSeq(s, i, i + Len(sub) - 1) = sub

startswith(s, prefix) ==
  Len(s) >= Len(prefix) /\ SubSeq(s, 1, Len(prefix)) = prefix

\* sep.join(parts)
RECURSIVE join(_, _)
join(sep, parts) ==
  IF parts = <<>> THEN <<>>
  ELSE IF Len(parts) = 1 THEN parts[1]
  ELSE parts[1] \o sep \o join(sep, Tail(parts))

(***************************************************************************)
(* dict: a sequence of <<key, value>> pairs with unique keys, in insertion *)
(* order; assigning an existing key replaces its value in place.           *)
(***************************************************************************)
DictKeys(d) == {d[i][1] : i \in 1..Len(d)}

DictGet(d, k, default) ==
  IF k \in DictKeys(d)
    THEN (CHOOSE p \in {d[i] : i \in 1..Len(d)} : p[1] = k)[2]
    ELSE default

DictSet(d, k, v) ==
  IF k \in DictKeys(d)
    THEN [i \in 1..Len(d) |-> IF d[i][1] = k THEN <<k, v>> ELSE d[i]]
    ELSE Append(d, <<k, v>>)

RECURSIVE dict(_)
dict(pairs) ==
  IF pairs = <<>> THEN <<>>
  ELSE LET n == Len(pairs) IN
    DictSet(dict(SubSeq(pairs, 1, n - 1)), pairs[n][1], pairs[n][2])

(***************************************************************************)
(* float: float(str) on decimal literals and "nan"; comparisons with a NaN *)
(* operand are false.                                                      *)
(***************************************************************************)
NaN == [nan |-> TRUE, v |-> 0]

Float(v) == [nan |-> FALSE, v |-> v]

FloatNeg(x) == IF x.nan THEN NaN ELSE Float(0 - x.v)

FloatLT(x, y) == ~x.nan /\ ~y.nan /\ x.v < y.v

FloatEQ(x, y) == ~x.nan /\ ~y.nan /\ x.v = y.v

FloatGE(x, y) == ~x.nan /\ ~y.nan /\ x.v >= y.v

DigitVal(c) ==
  CASE c = "0" -> 0 [] c = "1" -> 1 [] c = "2" -> 2 [] c = "3" -> 3
    [] c = "4" -> 4 [] c = "5" -> 5 [] c = "6" -> 6 [] c = "7" -> 7
    [] c = "8" -> 8 [] c = "9" -> 9

IsDigits(s) == \A i \in 1..Len(s) : s[i] \in Digits

RECURSIVE DecVal(_)
DecVal(s) ==
  IF s = <<>> THEN 0
  ELSE 10 * DecVal(SubSeq(s, 1, Len(s) - 1)) + DigitVal(s[Len(s)])

\* the first three fractional digits, as thousandths
Thousandths(frac) ==
  DecVal(SubSeq(frac \o <<"0", "0", "0">>, 1, 3))

\* float(s): Return(a float) or Raise("ValueError")
float(s) ==
  LET t == strip(s)
      parts == split1(t, ".")
  IN
    IF lower(t) = <<"n", "a", "n">> THEN Return(NaN)
    ELSE IF Len(parts) = 1
      THEN IF t # <<>> /\ IsDigits(t)
             THEN Return(Float(1000 * DecVal(t)))
             ELSE Raise("ValueError")
    ELSE IF IsDigits(parts[1]) /\ IsDigits(parts[2])
            /\ Len(parts[1]) + Len(parts[2]) > 0
      THEN Return(Float(1000 * DecVal(parts[1]) + Thousandths(parts[2])))
      ELSE Raise("ValueError")

(***************************************************************************)
(* sorted(): CPython's list sort on a short list (fewer than 64 items):    *)
(* the leading run is found, reversed when strictly descending, and the    *)
(* other items are placed by binary insertion.  Only `<` is used.  An item *)
(* is a record with its sort key, a tuple whose first component is a float *)
(* and whose other components are ints (a bare float key is a 1-tuple).    *)
(***************************************************************************)
KeyEq(x, y, k) == IF k = 1 THEN FloatEQ(x[1], y[1]) ELSE x[k] = y[k]

\* tuple `<`: decided by the first position where the two differ
TupleLT(x, y) ==
  LET n == IF Len(x) < Len(y) THEN Len(x) ELSE Len(y)
      diff == {k \in 1..n : ~KeyEq(x, y, k)}
  IN
    IF diff = {} THEN Len(x) < Len(y)
    ELSE LET d == CHOOSE k \in diff : \A m \in diff : k <= m IN
      IF d = 1 THEN FloatLT(x[1], y[1]) ELSE x[d] < y[d]

ISLT(a, b) == TupleLT(a.key, b.key)

\* count_run: the length of the leading run and whether it descends
CountRun(a) ==
  IF Len(a) <= 1 THEN [n |-> Len(a), descending |-> FALSE]
  ELSE
    LET desc == ISLT(a[2], a[1])
        InRun(k) == IF desc THEN ISLT(a[k], a[k - 1]) ELSE ~ISLT(a[k], a[k - 1])
        n == CHOOSE m \in 2..Len(a) :
               /\ \A k \in 3..m : InRun(k)
               /\ (m = Len(a) \/ ~InRun(m + 1))
    IN [n |-> n, descending |-> desc]

\* binarysort's search: where pivot goes into the sorted a[1..r-1]
RECURSIVE BinarySearch(_, _, _, _)
BinarySearch(a, pivot, l, r) ==
  IF l >= r THEN l
  ELSE LET p == l + ((r - l) \div 2) IN
    IF ISLT(pivot, a[p])
      THEN BinarySearch(a, pivot, l, p)
      ELSE BinarySearch(a, pivot, p + 1, r)

RECURSIVE BinarySort(_, _)
BinarySort(done, rest) ==
  IF rest = <<>> THEN done
  ELSE
    LET pivot == Head(rest)
        l == BinarySearch(done, pivot, 1, Len(done) + 1)
    IN BinarySort(SubSeq(done, 1, l - 1) \o <<pivot>>
                    \o SubSeq(done, l, Len(done)),
                  Tail(rest))

sorted(a) ==
  LET run == CountRun(a)
      head == SubSeq(a, 1, run.n)
  IN BinarySort(IF run.descending THEN reversed(head) ELSE head,
                SubSeq(a, run.n + 1, Len(a)))

(***************************************************************************)
(* MediaType                                                               *)
(***************************************************************************)
S_q == <<"q">>

S_default_q == <<"1", ".", "0">>

S_star == <<"*">>

\* the names of __init__'s own parameters: a keyword of that name collides
InitParameterNames ==
  {<<"s", "e", "l", "f">>, <<"t", "y", "p", "e", "_">>,
   <<"s", "u", "b", "t", "y", "p", "e">>}

\* MediaType(type_, subtype, **params)
MediaType(type_, subtype, params) ==
  IF DictKeys(params) \cap InitParameterNames # {} THEN Raise("TypeError")
  ELSE
    LET q == float(DictGet(params, S_q, S_default_q)) IN
      IF IsRaise(q) THEN q
      ELSE Return([type_ |-> type_, subtype |-> subtype, q |-> q.val,
                   params |-> params, str |-> type_ \o <<"/">> \o subtype])

\* MediaType._parse(raw)
MediaType_parse(raw) ==
  LET mtype == strip(raw)
      pieces == split(mtype, ";")
      media == pieces[1]
      raw_params == Tail(pieces)
      ms == split1(media, "/")
      kv == [i \in 1..Len(raw_params) |-> split1(raw_params[i], "=")]
  IN
    IF Len(ms) # 2 THEN Raise("ValueError")
    ELSE IF ms[1] = <<>> \/ ms[2] = <<>> THEN Raise("ValueError")
    ELSE IF \E i \in 1..Len(kv) : Len(kv[i]) # 2 THEN Raise("ValueError")
    ELSE MediaType(lstrip(ms[1]), rstrip(ms[2]),
                   dict([i \in 1..Len(kv) |->
                           <<strip(kv[i][1]), strip(kv[i][2])>>]))

\* MediaType.match with the wildcard honoured on the self side only
MediaType_match_OneWay(self, media_type, allow_type_wildcard, allow_subtype_wildcard) ==
  LET p == MediaType_parse(media_type) IN
    IF IsRaise(p) THEN p
    ELSE LET mt == p.val IN
      IF /\ self.subtype \in {mt.subtype, S_star}
         /\ self.type_ \in {mt.type_, S_star}
         /\ (allow_type_wildcard
               \/ (self.type_ # S_star /\ mt.type_ # S_star))
         /\ (allow_subtype_wildcard
               \/ (self.subtype # S_star /\ mt.subtype # S_star))
        THEN Return(self)
        ELSE ReturnNone

\* MediaType.match with a false flag refusing only `*` against `*`
MediaType_match_StarVsStar(self, media_type, allow_type_wildcard, allow_subtype_wildcard) ==
  LET p == MediaType_parse(media_type) IN
    IF IsRaise(p) THEN p
    ELSE LET mt == p.val IN
      IF /\ (self.subtype \in {mt.subtype, S_star} \/ mt.subtype = S_star)
         /\ (self.type_ \in {mt.type_, S_star} \/ mt.type_ = S_star)
         /\ (allow_type_wildcard
               \/ (self.type_ # S_star \/ mt.type_ # S_star))
         /\ (allow_subtype_wildcard
               \/ (self.subtype # S_star \/ mt.subtype # S_star))
        THEN Return(self)
        ELSE ReturnNone

\* self.match(media_type, allow_type_wildcard, allow_subtype_wildcard):
\* Return(self), ReturnNone, or what parsing media_type raises
MediaType_match(self, media_type, allow_type_wildcard, allow_subtype_wildcard) ==
  LET p == MediaType_parse(media_type) IN
    IF IsRaise(p) THEN p
    ELSE LET mt == p.val IN
      IF /\ (self.subtype \in {mt.subtype, S_star} \/ mt.subtype = S_star)
         /\ (self.type_ \in {mt.type_, S_star} \/ mt.type_ = S_star)
         /\ (allow_type_wildcard
               \/ (self.type_ # S_star /\ mt.type_ # S_star))
         /\ (allow_subtype_wildcard
               \/ (self.subtype # S_star /\ mt.subtype # S_star))
        THEN Return(self)
        ELSE ReturnNone

(***************************************************************************)
(* AcceptList, parse_accept                                                *)
(***************************************************************************)
\* Matched(mime, m)
Matched(mime, m) == [mime |-> mime, m |-> m]

\* the (j, i) pairs in the order the comprehension visits them
MatchPairs(nj, ni) ==
  [k \in 1..(nj * ni) |-> [j |-> ((k - 1) \div ni) + 1, i |-> ((k - 1) % ni) + 1]]

RECURSIVE SelectSeq2(_, _)
SelectSeq2(s, keep) ==
  IF s = <<>> THEN <<>>
  ELSE (IF Head(s) \in keep THEN <<Head(s)>> ELSE <<>>)
         \o SelectSeq2(Tail(s), keep)

\* AcceptList.match(self, *mimes); indices i, j are 0-based in the keys
AcceptList_match(self, mimes) ==
  LET pairs == MatchPairs(Len(self), Len(mimes))
      m(pr) == MediaType_match(self[pr.j], mimes[pr.i], TRUE, TRUE)
      all == {pairs[k] : k \in 1..Len(pairs)}
      raising == {k \in 1..Len(pairs) : IsRaise(m(pairs[k]))}
  IN
    IF raising # {}
      THEN m(pairs[CHOOSE k \in raising : \A k2 \in raising : k <= k2])
    ELSE
      LET hits == SelectSeq2(pairs, {pr \in all : ~IsNone(m(pr))})
          l == sorted([k \in 1..Len(hits) |->
                 [key |-> <<FloatNeg(self[hits[k].j].q),
                            hits[k].i - 1, hits[k].j - 1>>,
                  mime |-> mimes[hits[k].i],
                  acc |-> self[hits[k].j]]])
      IN IF l # <<>>
           THEN Return(Matched(l[1].mime, l[1].acc))
           ELSE Return(Matched(<<>>, None))

\* parse_accept(accept): Return(the AcceptList) or the exception raised
parse_accept(accept) ==
  IF accept = <<>> \/ accept = NoneStr THEN Return(<<>>)
  ELSE
    LET mtypes == split(accept, ",")
        parsed == [k \in 1..Len(mtypes) |-> MediaType_parse(mtypes[k])]
        raising == {k \in 1..Len(parsed) : IsRaise(parsed[k])}
    IN
      IF raising # {}
        THEN LET first == parsed[CHOOSE k \in raising :
                                   \A k2 \in raising : k <= k2]
             IN IF first.exc = "ValueError"
                  THEN Raise("InvalidHeader")
                  ELSE first
      ELSE
        LET a == sorted([k \in 1..Len(parsed) |->
                   [key |-> <<FloatNeg(parsed[k].val.q)>>,
                    item |-> parsed[k].val]])
        IN Return([k \in 1..Len(a) |-> a[k].item])

(***************************************************************************)
(* int(), unquote(), the header store                                      *)
(***************************************************************************)
RECURSIVE StripZeros(_)
StripZeros(s) ==
  IF Len(s) > 1 /\ Head(s) = "0" THEN StripZeros(Tail(s)) ELSE s

\* int(s) on an int, or on a decimal literal with an optional sign and
\* single underscores between digits: Return(the int) or
\* Raise("ValueError")
int(s) ==
  IF s # <<>> /\ Head(s) = "int" THEN Return(s) ELSE
  LET t == strip(s)
      signed == t # <<>> /\ Head(t) \in {"+", "-"}
      ds == IF signed THEN Tail(t) ELSE t
      groups == split(ds, "_")
      mag == StripZeros(join(<<>>, groups))
  IN
    IF \E g \in 1..Len(groups) : groups[g] = <<>> \/ ~IsDigits(groups[g])
      THEN Raise("ValueError")
    ELSE Return(<<"int">>
                  \o (IF signed /\ Head(t) = "-" /\ mag # <<"0">>
                        THEN <<"-">> ELSE <<>>)
                  \o mag)

HexDigits ==
  Digits \cup {"a", "b", "c", "d", "e", "f", "A", "B", "C", "D", "E", "F"}

\* the character a percent escape stands for
PercentChar(h1, h2) ==
  CASE <<h1, h2>> = <<"2", "5">> -> "%"
    [] <<h1, h2>> = <<"2", "0">> -> " "
    [] <<h1, h2>> = <<"4", "1">> -> "A"
    [] <<LowerChar(h1), LowerChar(h2)>> = <<"2", "f">> -> "/"
    [] OTHER -> "?"

\* urllib.parse.unquote(s): every %XX replaced, in one pass
RECURSIVE unquote(_)
unquote(s) ==
  IF s = <<>> THEN <<>>
  ELSE IF Len(s) >= 3 /\ s[1] = "%" /\ s[2] \in HexDigits /\ s[3] \in HexDigits
    THEN <<PercentChar(s[2], s[3])>> \o unquote(SubSeq(s, 4, Len(s)))
    ELSE <<Head(s)>> \o unquote(Tail(s))

\* headers: a function from header names to the list of that header's lines
getall(headers, name, default) ==
  IF name \in DOMAIN headers THEN headers[name] ELSE default

getone(headers, name, default) ==
  IF name \in DOMAIN headers THEN headers[name][1] ELSE default

(***************************************************************************)
(* fwd_normalize_address, fwd_normalize                                    *)
(***************************************************************************)
S_unknown == <<"u", "n", "k", "n", "o", "w", "n">>

S_by == <<"b", "y">>

S_for == <<"f", "o", "r">>

S_host == <<"h", "o", "s", "t">>

S_proto == <<"p", "r", "o", "t", "o">>

S_port == <<"p", "o", "r", "t">>

S_path == <<"p", "a", "t", "h">>

S_secret == <<"s", "e", "c", "r", "e", "t">>

\* _ipv6_re.fullmatch(addr): 2 to 7 groups of up to 4 hex digits, each
\* followed by `:`, then a last group of up to 4 hex digits
ipv6_fullmatch(addr) ==
  LET groups == split(addr, ":") IN
    /\ Len(groups) - 1 \in 2..7
    /\ \A g \in 1..Len(groups) :
         /\ Len(groups[g]) <= 4
         /\ \A i \in 1..Len(groups[g]) : groups[g][i] \in HexDigits

\* the address lower-cased before the test for an obfuscated identifier
fwd_normalize_address_LowerFirst(addr) ==
  IF addr = S_unknown THEN Raise("ValueError")
  ELSE IF ipv6_fullmatch(addr) THEN Return(lower(<<"[">> \o addr \o <<"]">>))
  ELSE Return(lower(addr))

fwd_normalize_address(addr) ==
  IF addr = S_unknown THEN Raise("ValueError")
  ELSE IF startswith(addr, <<"_">>) THEN Return(addr)
  ELSE IF ipv6_fullmatch(addr) THEN Return(lower(<<"[">> \o addr \o <<"]">>))
  ELSE Return(lower(addr))

\* the conversion of one field: Return(value) or Raise("ValueError")
NormalizeField(key, val) ==
  IF key \in {S_by, S_for} THEN fwd_normalize_address(val)
  ELSE IF key \in {S_host, S_proto} THEN Return(lower(val))
  ELSE IF key = S_port THEN int(val)
  ELSE IF key = S_path THEN Return(unquote(val))
  ELSE Return(val)

\* fwd_normalize without the except clause: a ValueError of a field leaves
\* the function
RECURSIVE fwd_normalize_loop_NoCatch(_, _)
fwd_normalize_loop_NoCatch(fwd, ret) ==
  IF fwd = <<>> THEN Return(ret)
  ELSE
    LET key == Head(fwd)[1]
        val == Head(fwd)[2]
    IN
      IF val = NoneStr THEN fwd_normalize_loop_NoCatch(Tail(fwd), ret)
      ELSE
        LET c == NormalizeField(key, val) IN
          IF IsRaise(c) THEN c
          ELSE fwd_normalize_loop_NoCatch(Tail(fwd), DictSet(ret, key, c.val))

\* fwd_normalize(fwd): Return(the dict); a ValueError of a field is caught
\* and the field skipped
RECURSIVE fwd_normalize_loop(_, _)
fwd_normalize_loop(fwd, ret) ==
  IF fwd = <<>> THEN Return(ret)
  ELSE
    LET key == Head(fwd)[1]
        val == Head(fwd)[2]
    IN
      IF val = NoneStr THEN fwd_normalize_loop(Tail(fwd), ret)
      ELSE
        LET c == NormalizeField(key, val) IN
          IF IsRaise(c)
            THEN IF c.exc = "ValueError"
                   THEN fwd_normalize_loop(Tail(fwd), ret)
                   ELSE c
            ELSE fwd_normalize_loop(Tail(fwd), DictSet(ret, key, c.val))

fwd_normalize(fwd) == fwd_normalize_loop(fwd, <<>>)

(***************************************************************************)
(* parse_forwarded: _rparam matched over the reversed header               *)
(***************************************************************************)
\* the characters of _token under re.ASCII: word characters and the
\* punctuation of an HTTP token (the backquote is left out)
TokenChars ==
  {UpperCase[i] : i \in 1..Len(UpperCase)}
    \cup {LowerCase[i] : i \in 1..Len(LowerCase)}
    \cup Digits
    \cup {"_", "!", "#", "$", "%", "&", "'", "*", "+", "-", ".", "^", "|",
          "~"}

\* the first index at or after i whose character is not in chars
RECURSIVE RunEnd(_, _, _)
RunEnd(a, i, chars) ==
  IF i <= Len(a) /\ a[i] \in chars THEN RunEnd(a, i + 1, chars) ELSE i

NoMatch == [ok |-> FALSE]

\* _rparam.match(a, s): (?:token|"quoted")=token\s*($|[;,]) from index s.
\* The groups are val_token, val_quoted, key, sep; end is the index after
\* the match.  A group that took no part is NoneStr.
MatchAt(a, s) ==
  LET tokEnd == RunEnd(a, s, TokenChars)
      isTok == tokEnd > s
      isQuoted == s <= Len(a) /\ a[s] = "\""
      qEnd == IF isQuoted THEN FindFrom(a, "\"", s + 1) ELSE 0
      eq == IF isTok THEN tokEnd ELSE qEnd + 1
      keyEnd == RunEnd(a, eq + 1, TokenChars)
      wsEnd == RunEnd(a, keyEnd, Whitespace)
  IN
    IF ~isTok /\ (~isQuoted \/ qEnd = 0) THEN NoMatch
    ELSE IF eq > Len(a) \/ a[eq] # "=" THEN NoMatch
    ELSE IF keyEnd = eq + 1 THEN NoMatch
    ELSE IF wsEnd <= Len(a) /\ a[wsEnd] \notin {";", ","} THEN NoMatch
    ELSE [ok |-> TRUE,
          start |-> s,
          val_token |-> IF isTok THEN SubSeq(a, s, tokEnd - 1) ELSE NoneStr,
          val_quoted |-> IF isTok THEN NoneStr ELSE SubSeq(a, s + 1, qEnd - 1),
          key |-> SubSeq(a, eq + 1, keyEnd - 1),
          sep |-> IF wsEnd > Len(a) THEN <<>> ELSE <<a[wsEnd]>>,
          end |-> IF wsEnd > Len(a) THEN wsEnd ELSE wsEnd + 1]

\* the next match of _rparam.finditer at or after index from
RECURSIVE NextMatchFrom(_, _)
NextMatchFrom(a, from) ==
  IF from > Len(a) THEN NoMatch
  ELSE LET m == MatchAt(a, from) IN
    IF m.ok THEN m ELSE NextMatchFrom(a, from + 1)

\* s.replace(old, new) for a two-character old
RECURSIVE replace2(_, _, _)
replace2(s, old, new) ==
  IF Len(s) < 2 THEN s
  ELSE IF SubSeq(s, 1, 2) = old
    THEN new \o replace2(SubSeq(s, 3, Len(s)), old, new)
    ELSE <<Head(s)>> \o replace2(Tail(s), old, new)

\* the loop keeping the clauses read so far when a new element starts
RECURSIVE ForwardedLoop_Merge(_, _, _, _, _, _, _)
ForwardedLoop_Merge(a, from, pos, sep, options, found, secret) ==
  LET m == NextMatchFrom(a, from) IN
    IF ~m.ok THEN [options |-> options, found |-> found]
    ELSE
      LET fresh == m.start # pos \/ sep # <<";">> IN
        IF fresh /\ found THEN [options |-> options, found |-> found]
        ELSE
          LET key == reversed(lower(m.key))
              val == reversed(IF m.val_token # NoneStr
                                THEN m.val_token
                                ELSE replace2(m.val_quoted,
                                              <<"\"", "\\">>, <<"\"">>))
              opts == Append(options, <<key, val>>)
              fnd == found \/ (key \in {S_secret, S_by} /\ val = secret)
          IN
            IF fnd /\ m.sep # <<";">>
              THEN [options |-> opts, found |-> fnd]
              ELSE ForwardedLoop_Merge(a, m.end, m.end, m.sep, opts, fnd, secret)

\* the loop over the matches; pos 0 and sep NoneStr stand for None
RECURSIVE ForwardedLoop(_, _, _, _, _, _, _)
ForwardedLoop(a, from, pos, sep, options, found, secret) ==
  LET m == NextMatchFrom(a, from) IN
    IF ~m.ok THEN [options |-> options, found |-> found]
    ELSE
      LET fresh == m.start # pos \/ sep # <<";">> IN
        IF fresh /\ found THEN [options |-> options, found |-> found]
        ELSE
          LET key == reversed(lower(m.key))
              val == reversed(IF m.val_token # NoneStr
                                THEN m.val_token
                                ELSE replace2(m.val_quoted,
                                              <<"\"", "\\">>, <<"\"">>))
              opts == Append(IF fresh THEN <<>> ELSE options, <<key, val>>)
              fnd == found \/ (key \in {S_secret, S_by} /\ val = secret)
          IN
            IF fnd /\ m.sep # <<";">>
              THEN [options |-> opts, found |-> fnd]
              ELSE ForwardedLoop(a, m.end, m.end, m.sep, opts, fnd, secret)

\* parse_forwarded(headers, config): Return(the dict) or ReturnNone
parse_forwarded(headers, config) ==
  LET lines == getall(headers, "forwarded", <<NoneStr>>)
      secret == config.FORWARDED_SECRET
  IN
    IF lines = <<NoneStr>> \/ secret = <<>> \/ secret = NoneStr THEN ReturnNone
    ELSE
      LET header == join(<<",">>, lines) IN
        IF ~contains(header, secret) THEN ReturnNone
        ELSE
          LET r == ForwardedLoop(reversed(header), 1, 0, NoneStr, <<>>,
                                 FALSE, secret)
          IN IF r.found THEN fwd_normalize(reversed(r.options))
                        ELSE ReturnNone

(***************************************************************************)
(* parse_xforwarded                                                        *)
(***************************************************************************)
\* the non-empty trimmed entries of the forwarded-for lines, in order
RECURSIVE ProxyEntries(_)
ProxyEntries(forwarded_for) ==
  IF forwarded_for = <<>> THEN <<>>
  ELSE
    LET ps == split(Head(forwarded_for), ",")
        stripped == [k \in 1..Len(ps) |-> strip(ps[k])]
    IN SelectSeq(stripped, LAMBDA e : e # <<>>) \o ProxyEntries(Tail(forwarded_for))

\* the address taken from the other end of the entries
ResolveAddr_FromStart(headers, config) ==
  LET real_ip_header == config.REAL_IP_HEADER
      proxies_count == config.PROXIES_COUNT
      addr == IF real_ip_header = "" THEN NoneStr
              ELSE getone(headers, real_ip_header, NoneStr)
  IN
    IF addr \notin {NoneStr, <<>>} THEN Return(addr)
    ELSE IF proxies_count = 0 THEN ReturnNone
    ELSE IF ~(proxies_count > 0) THEN Raise("AssertionError")
    ELSE IF config.FORWARDED_FOR_HEADER \notin DOMAIN headers THEN ReturnNone
    ELSE
      LET proxies == ProxyEntries(getall(headers, config.FORWARDED_FOR_HEADER, <<>>))
      IN IF proxies_count > Len(proxies) THEN ReturnNone
         ELSE Return(proxies[proxies_count])

\* the address of parse_xforwarded: Return(addr), ReturnNone when nothing is
\* resolved (a KeyError or IndexError is caught and addr stays falsy), or
\* Raise("AssertionError").  REAL_IP_HEADER "" is a header name not set.
ResolveAddr(headers, config) ==
  LET real_ip_header == config.REAL_IP_HEADER
      proxies_count == config.PROXIES_COUNT
      addr == IF real_ip_header = "" THEN NoneStr
              ELSE getone(headers, real_ip_header, NoneStr)
  IN
    IF addr \notin {NoneStr, <<>>} THEN Return(addr)
    ELSE IF proxies_count = 0 THEN ReturnNone
    ELSE IF ~(proxies_count > 0) THEN Raise("AssertionError")
    ELSE IF config.FORWARDED_FOR_HEADER \notin DOMAIN headers THEN ReturnNone
    ELSE
      LET proxies == ProxyEntries(getall(headers, config.FORWARDED_FOR_HEADER, <<>>))
      IN IF proxies_count > Len(proxies) THEN ReturnNone
         ELSE Return(proxies[Len(proxies) - proxies_count + 1])

\* the fields with x-scheme read after x-forwarded-proto
options_SchemeLast(headers, addr) ==
  <<<<S_for, addr>>,
    <<S_proto, getone(headers, "x-forwarded-proto", NoneStr)>>,
    <<S_proto, getone(headers, "x-scheme", NoneStr)>>,
    <<S_host, getone(headers, "x-forwarded-host", NoneStr)>>,
    <<S_port, getone(headers, "x-forwarded-port", NoneStr)>>,
    <<S_path, getone(headers, "x-forwarded-path", NoneStr)>>>>

\* the generator options(): the fields in the order they are yielded
options(headers, addr) ==
  <<<<S_for, addr>>,
    <<S_proto, getone(headers, "x-scheme", NoneStr)>>,
    <<S_proto, getone(headers, "x-forwarded-proto", NoneStr)>>,
    <<S_host, getone(headers, "x-forwarded-host", NoneStr)>>,
    <<S_port, getone(headers, "x-forwarded-port", NoneStr)>>,
    <<S_path, getone(headers, "x-forwarded-path", NoneStr)>>>>

parse_xforwarded(headers, config) ==
  LET a == ResolveAddr(headers, config) IN
    IF IsRaise(a) THEN a
    ELSE IF IsNone(a) THEN ReturnNone
    ELSE fwd_normalize(options(headers, a.val))

(***************************************************************************)
(* parse_content_header                                                    *)
(***************************************************************************)
\* the lookahead of _firefox_quote_escape at index k: `; ` or blanks up to
\* the end of the string
QuoteEscapeLookahead(value, k) ==
  \/ k + 1 <= Len(value) /\ value[k] = ";" /\ value[k + 1] = " "
  \/ RunEnd(value, k, Whitespace) > Len(value)

\* _firefox_quote_escape.sub("%22", value) from index i on
RECURSIVE firefox_quote_escape_sub(_, _)
firefox_quote_escape_sub(value, i) ==
  IF i > Len(value) THEN <<>>
  ELSE IF /\ i < Len(value)
          /\ value[i] = "\\"
          /\ value[i + 1] = "\""
          /\ ~QuoteEscapeLookahead(value, i + 2)
    THEN <<"%", "2", "2">> \o firefox_quote_escape_sub(value, i + 2)
    ELSE <<value[i]>> \o firefox_quote_escape_sub(value, i + 1)

\* s.replace(old, new)
RECURSIVE replace(_, _, _)
replace(s, old, new) ==
  IF Len(s) < Len(old) THEN s
  ELSE IF SubSeq(s, 1, Len(old)) = old
    THEN new \o replace(SubSeq(s, Len(old) + 1, Len(s)), old, new)
    ELSE <<Head(s)>> \o replace(Tail(s), old, new)

\* _param.match(v, i): ;\s*token=(?:token|"quoted"); the groups are key,
\* token, quoted and end is the index after the match
ParamAt(v, i) ==
  IF i > Len(v) \/ v[i] # ";" THEN NoMatch
  ELSE
    LET k == RunEnd(v, i + 1, Whitespace)
        keyEnd == RunEnd(v, k, TokenChars)
        vs == keyEnd + 1
        tokEnd == RunEnd(v, vs, TokenChars)
        qEnd == IF vs <= Len(v) /\ v[vs] = "\""
                  THEN FindFrom(v, "\"", vs + 1) ELSE 0
    IN
      IF keyEnd = k \/ keyEnd > Len(v) \/ v[keyEnd] # "=" THEN NoMatch
      ELSE IF tokEnd > vs
        THEN [ok |-> TRUE, key |-> SubSeq(v, k, keyEnd - 1),
              token |-> SubSeq(v, vs, tokEnd - 1), quoted |-> NoneStr,
              end |-> tokEnd]
      ELSE IF qEnd > 0
        THEN [ok |-> TRUE, key |-> SubSeq(v, k, keyEnd - 1),
              token |-> NoneStr, quoted |-> SubSeq(v, vs + 1, qEnd - 1),
              end |-> qEnd + 1]
      ELSE NoMatch

\* the dict comprehension over _param.finditer(v), scanning from index i
RECURSIVE ParamLoop(_, _, _)
ParamLoop(v, i, opts) ==
  IF i > Len(v) THEN opts
  ELSE
    LET m == ParamAt(v, i) IN
      IF m.ok
        THEN ParamLoop(v, m.end,
                       DictSet(opts, lower(m.key),
                               IF m.token # NoneStr
                                 THEN m.token
                                 ELSE replace(m.quoted, <<"%", "2", "2">>,
                                              <<"\"">>)))
        ELSE ParamLoop(v, i + 1, opts)

\* parse_content_header(value): Return(<<main value, options>>)
parse_content_header(value) ==
  LET v == firefox_quote_escape_sub(value, 1)
      pos == find(v, ";")
  IN
    IF pos = 0 THEN Return(<<lower(strip(v)), <<>>>>)
    ELSE Return(<<lower(strip(SubSeq(v, 1, pos - 1))),
                  ParamLoop(SubSeq(v, pos, Len(v)), 1, <<>>)>>)

(***************************************************************************)
(* _HTTP1_STATUSLINES, format_http1_response.  bytes are sequences of      *)
(* one-character strings, as str is.                                       *)
(***************************************************************************)
\* b"%d" % n for n >= 0
RECURSIVE FormatD(_)
FormatD(n) ==
  LET d == <<"0", "1", "2", "3", "4", "5", "6", "7", "8", "9">>[(n % 10) + 1] IN
    IF n < 10 THEN <<d>> ELSE FormatD(n \div 10) \o <<d>>

\* sanic.helpers.STATUS_CODES: the reason phrases
STATUS_CODES == [status \in {200} |-> <<"O", "K">>]

S_UNKNOWN == <<"U", "N", "K", "N", "O", "W", "N">>

CRLF == <<"\r", "\n">>

\* b"HTTP/1.1 %d %b\r\n" % (status, STATUS_CODES.get(status, b"UNKNOWN"))
StatusLine(status) ==
  <<"H", "T", "T", "P", "/", "1", ".", "1", " ">>
    \o FormatD(status) \o <<" ">>
    \o (IF status \in DOMAIN STATUS_CODES THEN STATUS_CODES[status] ELSE S_UNKNOWN)
    \o CRLF

\* the length of the table: range(1000)
StatusRange == 1000

\* the indices of the table that the model keeps
ModelledStatuses == {0, 200, 999}

\* the table as built when the module is loaded
HTTP1_STATUSLINES == [status \in ModelledStatuses |-> StatusLine(status)]

\* list indexing: the index a status reads, -1 for an IndexError
ListIndex(status) ==
  IF 0 <= status /\ status < StatusRange THEN status
  ELSE IF -StatusRange <= status /\ status < 0 THEN status + StatusRange
  ELSE -1

\* a header line without the blank after the colon
HeaderLine_NoBlank(h) == h[1] \o <<":">> \o h[2] \o CRLF

\* b"%b: %b\r\n" % h
HeaderLine(h) == h[1] \o <<":", " ">> \o h[2] \o CRLF

\* ret += ... done in place on the object the table holds
AfterConcat_InPlace(table, index, ret) == [table EXCEPT ![index] = ret]

\* the table after `ret += ...`: bytes are immutable, so ret is bound to a
\* new object and the table entry it came from stays as it is
AfterConcat(table, index, ret) == table

\* the header lines of format_http1_response, in order
RECURSIVE HeaderLines(_)
HeaderLines(headers) ==
  IF headers = <<>> THEN <<>>
  ELSE HeaderLine(Head(headers)) \o HeaderLines(Tail(headers))

\* format_http1_response(status, headers) run from the built table
format_http1_response(status, headers) ==
  IF ListIndex(status) = -1 THEN Raise("IndexError")
  ELSE Return(HTTP1_STATUSLINES[ListIndex(status)] \o HeaderLines(headers) \o CRLF)

Workers == {"w1", "w2"}

Idle == [pc |-> "idle"]

ModuleLoaded ==
  /\ statuslines = HTTP1_STATUSLINES
  /\ workers = [w \in Workers |-> Idle]

(***************************************************************************)
(* parse_credentials                                                       *)
(***************************************************************************)
S_Basic == <<"B", "a", "s", "i", "c">>

S_Bearer == <<"B", "e", "a", "r", "e", "r">>

S_Token == <<"T", "o", "k", "e", "n">>

\* s.partition(sep)[-1]: what follows the first occurrence of sep, the empty
\* string when there is none; Raise("ValueError") for an empty sep
RECURSIVE partition_last(_, _)
partition_last(s, sep) ==
  IF sep = <<>> THEN Raise("ValueError")
  ELSE IF Len(s) < Len(sep) THEN Return(<<>>)
  ELSE IF SubSeq(s, 1, Len(sep)) = sep
    THEN Return(SubSeq(s, Len(sep) + 1, Len(s)))
    ELSE partition_last(Tail(s), sep)

\* the loop over the prefixes: the outcome of the return inside it, or
\* Pending when the loop ends without one
RECURSIVE CredentialsLoop(_, _)
CredentialsLoop(header, prefixes) ==
  IF prefixes = <<>> THEN Pending
  ELSE IF contains(header, Head(prefixes))
    THEN LET rest == partition_last(header, Head(prefixes)) IN
           IF IsRaise(rest) THEN rest
           ELSE Return(<<Head(prefixes), strip(rest.val)>>)
    ELSE CredentialsLoop(header, Tail(prefixes))

\* the prefixes tried from the last to the first
parse_credentials_LastFirst(header, prefixes) ==
  LET ps == IF prefixes = <<>> THEN <<S_Basic, S_Bearer, S_Token>> ELSE prefixes
      r == IF header # NoneStr THEN CredentialsLoop(header, reversed(ps)) ELSE Pending
  IN IF r # Pending THEN r ELSE Return(<<NoneStr, header>>)

\* parse_credentials(header, prefixes) for prefixes a list or tuple; the
\* empty one also stands for None and for an argument of another type
parse_credentials(header, prefixes) ==
  LET ps == IF prefixes = <<>> THEN <<S_Basic, S_Bearer, S_Token>> ELSE prefixes
      r == IF header # NoneStr THEN CredentialsLoop(header, ps) ELSE Pending
  IN IF r # Pending THEN r ELSE Return(<<NoneStr, header>>)

(***************************************************************************)
(* MediaType.match called on parsed media types                            *)
(***************************************************************************)
TypeNames == {<<"t">>, <<"a">>, <<"*">>}

SubtypeNames == {<<"h">>, <<"j">>, <<"*">>}

MediaStrings == {t \o <<"/">> \o st : t \in TypeNames, st \in SubtypeNames}

InitMatch ==
  /\ fn = "MediaType.match"
  /\ args \in [self : MediaStrings, media_type : MediaStrings,
               allow_type_wildcard : BOOLEAN,
               allow_subtype_wildcard : BOOLEAN]
  /\ result = Pending
  /\ ModuleLoaded

\* MediaType._parse(args.self).match(args.media_type, flags)
CallMediaTypeMatch ==
  /\ fn = "MediaType.match"
  /\ result = Pending
  /\ result' = MediaType_match(MediaType_parse(args.self).val, args.media_type,
                               args.allow_type_wildcard,
                               args.allow_subtype_wildcard)
  /\ UNCHANGED <<fn, args, statuslines, workers>>

NextMatch == CallMediaTypeMatch

SpecMatch == InitMatch /\ [][NextMatch]_vars

(***************************************************************************)
(* parse_accept on an Accept header, then AcceptList.match on its result   *)
(***************************************************************************)
MaxAccept == 3

MaxMimes == 2

AcceptMedia ==
  {<<"t", "/", "h">>, <<"a", "/", "j">>, <<"t", "/", "*">>, <<"*", "/", "*">>}

AcceptParams ==
  {<<>>, <<";", "q", "=", "0", ".", "5">>, <<";", "q", "=", "n", "a", "n">>}

\* elements that are not a plain media type with an optional q
OddElements ==
  {<<"t">>,
   <<"/", "h">>,
   <<"t", "/", " ">>,
   <<"t", "/", "h", ";", "q">>,
   <<"t", "/", "h", ";", "q", "=", "x">>,
   <<"t", "/", "h", ";", "t", "y", "p", "e", "_", "=", "x">>,
   <<" ", "a", "/", "j", " ", ";", " ", "q", " ", "=", " ", "0", ".", "5">>}

AcceptElements ==
  {m \o p : m \in AcceptMedia, p \in AcceptParams} \cup OddElements

SeqsUpTo(S, n) == UNION {[1..k -> S] : k \in 0..n}

AcceptHeaders == {join(<<",">>, es) : es \in SeqsUpTo(AcceptElements, MaxAccept)}

Mimes == {<<"t", "/", "h">>, <<"a", "/", "j">>, <<"t", "/", "*">>}

InitAccept ==
  /\ fn = "parse_accept"
  /\ args \in [accept : AcceptHeaders]
  /\ result = Pending
  /\ ModuleLoaded

CallParseAccept ==
  /\ fn = "parse_accept"
  /\ result = Pending
  /\ result' = parse_accept(args.accept)
  /\ UNCHANGED <<fn, args, statuslines, workers>>

\* request.accept.match(*mimes) on the list parse_accept returned
CallAcceptListMatch ==
  /\ fn = "parse_accept"
  /\ result.kind = "return"
  /\ \E mimes \in SeqsUpTo(Mimes, MaxMimes) :
       /\ fn' = "AcceptList.match"
       /\ args' = [accept |-> args.accept, self |-> result.val, mimes |-> mimes]
       /\ result' = AcceptList_match(result.val, mimes)
  /\ UNCHANGED <<statuslines, workers>>

NextAccept == CallParseAccept \/ CallAcceptListMatch

SpecAccept == InitAccept /\ [][NextAccept]_vars

(***************************************************************************)
(* parse_forwarded on the Forwarded lines of a request                     *)
(***************************************************************************)
MaxClauses == 3

\* for=a  secret=x  By="x"  secret=xy  for=x  secret=x@  port=a
ForwardedClauses ==
  {<<"f", "o", "r", "=", "a">>,
   <<"s", "e", "c", "r", "e", "t", "=", "x">>,
   <<"B", "y", "=", "\"", "x", "\"">>,
   <<"s", "e", "c", "r", "e", "t", "=", "x", "y">>,
   <<"s", "e", "c", "r", "e", "t", "=", "x", "@">>}

\* header lines with a field that fwd_normalize cannot convert, next to a
\* trusted clause
ForwardedOddLines ==
  {<<"p", "o", "r", "t", "=", "a", ";", "s", "e", "c", "r", "e", "t", "=", "x">>,
   <<"p", "o", "r", "t", "=", "a", ";", "f", "o", "r", "=", "A", ";",
     "b", "y", "=", "x">>,
   <<"f", "o", "r", "=", "x">>}

\* between two clauses of a header text: `;` or `, `
ClauseSeparators == {<<";">>, <<",", " ">>}

\* the header texts of k clauses
RECURSIVE ForwardedTexts(_)
ForwardedTexts(k) ==
  IF k = 1 THEN ForwardedClauses
  ELSE {t \o sp \o c : t \in ForwardedTexts(k - 1),
                       sp \in ClauseSeparators, c \in ForwardedClauses}

\* the text with every `, ` turned into the end of a header line
RECURSIVE SplitLines(_)
SplitLines(t) ==
  LET p == find(t, ",") IN
    IF p = 0 THEN <<t>>
    ELSE <<SubSeq(t, 1, p - 1)>> \o SplitLines(SubSeq(t, p + 2, Len(t)))

\* a text arrives as one Forwarded line or as one line per element
ForwardedHeaders ==
  LET texts == UNION {ForwardedTexts(k) : k \in 1..MaxClauses} IN
    {<<t>> : t \in texts} \cup {SplitLines(t) : t \in texts}

S_x == <<"x">>

InitForwarded ==
  /\ fn = "parse_forwarded"
  /\ \/ args \in [headers : {[n \in {"forwarded"} |-> h] : h \in ForwardedHeaders},
                  config : {[FORWARDED_SECRET |-> S_x]}]
     \/ args \in [headers : {[n \in {"forwarded"} |-> <<c>>] :
                                c \in ForwardedClauses \cup ForwardedOddLines}
                              \cup {<<>>},
                  config : {[FORWARDED_SECRET |-> <<>>], [FORWARDED_SECRET |-> S_x]}]
  /\ result = Pending
  /\ ModuleLoaded

CallParseForwarded ==
  /\ fn = "parse_forwarded"
  /\ result = Pending
  /\ result' = parse_forwarded(args.headers, args.config)
  /\ UNCHANGED <<fn, args, statuslines, workers>>

NextForwarded == CallParseForwarded

SpecForwarded == InitForwarded /\ [][NextForwarded]_vars

(***************************************************************************)
(* parse_xforwarded on the X-Forwarded-* headers of a request              *)
(***************************************************************************)
MaxProxies == 2

MaxEntries == 3

ForwardedForEntries == {<<"a">>, <<" ", "B">>, <<>>}

\* the forwarded-for texts of k entries
RECURSIVE ForwardedForTexts(_)
ForwardedForTexts(k) ==
  IF k = 1 THEN ForwardedForEntries
  ELSE {t \o <<",">> \o e : t \in ForwardedForTexts(k - 1),
                            e \in ForwardedForEntries}

\* a text arrives as one line or as one line per entry
ForwardedForHeaders ==
  LET texts == UNION {ForwardedForTexts(k) : k \in 1..MaxEntries} IN
    {<<t>> : t \in texts} \cup {split(t, ",") : t \in texts}

\* a header without lines is not in the request
Absent == <<>>

XHeaderNames ==
  {"x-real-ip", "x-forwarded-for", "x-scheme", "x-forwarded-proto",
   "x-forwarded-host", "x-forwarded-port", "x-forwarded-path"}

XHeaders(rip, xff, scheme, fproto, host, port, path) ==
  LET all == [n \in XHeaderNames |->
                CASE n = "x-real-ip" -> rip
                  [] n = "x-forwarded-for" -> xff
                  [] n = "x-scheme" -> scheme
                  [] n = "x-forwarded-proto" -> fproto
                  [] n = "x-forwarded-host" -> host
                  [] n = "x-forwarded-port" -> port
                  [] n = "x-forwarded-path" -> path]
  IN [n \in {m \in XHeaderNames : all[m] # Absent} |-> all[n]]

S_Http == <<"H", "t", "t", "p">>

S_HTTPS == <<"H", "T", "T", "P", "S">>

\* requests that vary the address sources
XAddressHeaders ==
  {XHeaders(rip, xff, Absent, fproto, Absent, Absent, Absent) :
     rip \in {Absent, <<<<>>>>, <<<<"R">>>>},
     xff \in {Absent} \cup ForwardedForHeaders,
     fproto \in {Absent, <<S_Http>>}}

\* requests that vary the other fields
XFieldHeaders ==
  {XHeaders(rip, xff, scheme, fproto, host, port, path) :
     rip \in {Absent, <<<<"R">>>>},
     xff \in {Absent, <<<<"a", ",", " ", "B">>>>, <<S_unknown>>},
     scheme \in {Absent, <<S_HTTPS>>},
     fproto \in {Absent, <<<<>>>>, <<S_Http>>},
     host \in {Absent, <<<<"H">>>>},
     port \in {Absent, <<<<"8", "0">>>>, <<<<"a">>>>},
     path \in {Absent, <<<<"/", "a", "%", "4", "1">>>>}}

InitXForwarded ==
  /\ fn = "parse_xforwarded"
  /\ args \in [headers : XAddressHeaders \cup XFieldHeaders,
               config : [REAL_IP_HEADER : {"", "x-real-ip"},
                         PROXIES_COUNT : 0..MaxProxies,
                         FORWARDED_FOR_HEADER : {"x-forwarded-for"}]]
  /\ result = Pending
  /\ ModuleLoaded

CallParseXForwarded ==
  /\ fn = "parse_xforwarded"
  /\ result = Pending
  /\ result' = parse_xforwarded(args.headers, args.config)
  /\ UNCHANGED <<fn, args, statuslines, workers>>

NextXForwarded == CallParseXForwarded

SpecXForwarded == InitXForwarded /\ [][NextXForwarded]_vars

(***************************************************************************)
(* The four proxy and content header parsers, each called once             *)
(***************************************************************************)
MaxParams == 2

ContentMains == {<<"F", "o", "r", "m", "-", "D", "a", "t", "a">>,
                 <<" ", "t", "/", "h", " ">>}

\* ; name=up  ;N="a b"  ; f="a\"b"  ; f="a\"  ;x=%22  ; bad  ;q=
ContentParams ==
  {<<";", " ", "n", "a", "m", "e", "=", "u", "p">>,
   <<";", "N", "=", "\"", "a", " ", "b", "\"">>,
   <<";", " ", "f", "=", "\"", "a", "\\", "\"", "b", "\"">>,
   <<";", " ", "f", "=", "\"", "a", "\\", "\"">>,
   <<";", "x", "=", "%", "2", "2">>,
   <<";", " ", "b", "a", "d">>,
   <<";", "q", "=">>}

ContentValues ==
  {m \o join(<<>>, ps) : m \in ContentMains,
                         ps \in SeqsUpTo(ContentParams, MaxParams)}

InitContent ==
  /\ fn = "parse_content_header"
  /\ args \in [value : ContentValues]
  /\ result = Pending
  /\ ModuleLoaded

CallParseContentHeader ==
  /\ fn = "parse_content_header"
  /\ result = Pending
  /\ result' = parse_content_header(args.value)
  /\ UNCHANGED <<fn, args, statuslines, workers>>

MaxFields == 2

NormalizeFields ==
  {<<S_port, <<"a">>>>,
   <<S_port, <<" ", "8", "0">>>>,
   <<S_for, S_unknown>>,
   <<S_for, <<"A", ":", "B", ":", ":", "1">>>>,
   <<S_by, <<"_", "O", "b">>>>,
   <<S_host, <<"H">>>>,
   <<S_path, <<"/", "a", "%", "4", "1">>>>,
   <<S_x, NoneStr>>,
   <<S_for, <<"U", "N", "K", "N", "O", "W", "N">>>>,
   <<S_by, <<"A", ".", "b">>>>,
   <<S_path, <<"/", "a", "%", "2", "5", "4", "1">>>>}

InitNormalize ==
  /\ fn = "fwd_normalize"
  /\ args \in [fwd : SeqsUpTo(NormalizeFields, MaxFields)]
  /\ result = Pending
  /\ ModuleLoaded

CallFwdNormalize ==
  /\ fn = "fwd_normalize"
  /\ result = Pending
  /\ result' = fwd_normalize(args.fwd)
  /\ UNCHANGED <<fn, args, statuslines, workers>>

\* fwd_normalize called on the items of the mapping it returned
CallFwdNormalizeItems ==
  /\ fn = "fwd_normalize"
  /\ result # Pending
  /\ result.kind = "return"
  /\ fn' = "fwd_normalize(items)"
  /\ args' = [fwd |-> result.val]
  /\ result' = fwd_normalize(result.val)
  /\ UNCHANGED <<statuslines, workers>>

NextNormalize == CallFwdNormalize \/ CallFwdNormalizeItems

SpecNormalize == InitNormalize /\ [][NextNormalize]_vars

InitProxy == InitForwarded \/ InitXForwarded \/ InitContent \/ InitNormalize

NextProxy ==
  \/ CallParseForwarded
  \/ CallParseXForwarded
  \/ CallParseContentHeader
  \/ CallFwdNormalize

SpecProxy == InitProxy /\ [][NextProxy]_vars

(***************************************************************************)
(* format_http1_response called by concurrent workers, a step of a call    *)
(* being one statement                                                     *)
(***************************************************************************)
MaxHeaders == 2

HeaderPairs ==
  {<<<<"C", "o", "n", "t", "e", "n", "t", "-", "L", "e", "n", "g", "t", "h">>,
     <<"5">>>>,
   <<<<"A">>, <<"b">>>>}

CallStatuses == ModelledStatuses \cup {-1, StatusRange}

InitStatusLines ==
  /\ fn = "format_http1_response"
  /\ args = None
  /\ result = Pending
  /\ ModuleLoaded

\* ret = _HTTP1_STATUSLINES[status]
CallFormat(w) ==
  /\ workers[w].pc \in {"idle", "returned", "raised"}
  /\ \E status \in CallStatuses, headers \in SeqsUpTo(HeaderPairs, MaxHeaders) :
       workers' = [workers EXCEPT ![w] =
                     IF ListIndex(status) = -1
                       THEN [pc |-> "raised", status |-> status,
                             headers |-> headers, exc |-> "IndexError"]
                       ELSE [pc |-> "loop", status |-> status,
                             headers |-> headers, index |-> ListIndex(status),
                             h |-> 1, ret |-> statuslines[ListIndex(status)]]]
  /\ UNCHANGED <<fn, args, result, statuslines>>

\* for h in headers: ret += b"%b: %b\r\n" % h
AppendHeader(w) ==
  /\ workers[w].pc = "loop"
  /\ workers[w].h <= Len(workers[w].headers)
  /\ LET ret == workers[w].ret \o HeaderLine(workers[w].headers[workers[w].h]) IN
       /\ workers' = [workers EXCEPT ![w].ret = ret, ![w].h = @ + 1]
       /\ statuslines' = AfterConcat(statuslines, workers[w].index, ret)
  /\ UNCHANGED <<fn, args, result>>

\* ret += b"\r\n"; return ret
ReturnFormat(w) ==
  /\ workers[w].pc = "loop"
  /\ workers[w].h > Len(workers[w].headers)
  /\ LET ret == workers[w].ret \o CRLF IN
       /\ workers' = [workers EXCEPT ![w].ret = ret, ![w].pc = "returned"]
       /\ statuslines' = AfterConcat(statuslines, workers[w].index, ret)
  /\ UNCHANGED <<fn, args, result>>

NextStatusLines ==
  \E w \in Workers : CallFormat(w) \/ AppendHeader(w) \/ ReturnFormat(w)

SpecStatusLines == InitStatusLines /\ [][NextStatusLines]_vars

(***************************************************************************)
(* parse_credentials on an authorization header                            *)
(***************************************************************************)
MaxPrefixes == 2

\* None, Bearer abc123, opaque-value, Token Basic x, Basic a Basic b,
\* bearer x, and two headers with blanks around the text
CredentialHeaders ==
  {NoneStr,
   <<"B", "e", "a", "r", "e", "r", " ", "a", "b", "c", "1", "2", "3">>,
   <<"o", "p", "a", "q", "u", "e", "-", "v", "a", "l", "u", "e">>,
   <<"T", "o", "k", "e", "n", " ", "B", "a", "s", "i", "c", " ", "x">>,
   <<"B", "a", "s", "i", "c", " ", "a", " ", "B", "a", "s", "i", "c", " ", "b">>,
   <<"b", "e", "a", "r", "e", "r", " ", "x">>,
   <<" ", "x", " ">>,
   <<" ", "B", "e", "a", "r", "e", "r", " ", " ", "x", " ">>}

CredentialPrefixes == {S_Basic, S_Bearer, S_Token}

\* called with a list of prefixes (the empty one gives the default) or
\* without the argument
InitCredentials ==
  /\ fn = "parse_credentials"
  /\ \/ args \in [header : CredentialHeaders,
                  prefixes : SeqsUpTo(CredentialPrefixes, MaxPrefixes)]
     \/ args \in [header : CredentialHeaders]
  /\ result = Pending
  /\ ModuleLoaded

CallParseCredentials ==
  /\ fn = "parse_credentials"
  /\ result = Pending
  /\ result' = parse_credentials(args.header,
                                 IF "prefixes" \in DOMAIN args
                                   THEN args.prefixes ELSE <<>>)
  /\ UNCHANGED <<fn, args, statuslines, workers>>

NextCredentials == CallParseCredentials

SpecCredentials == InitCredentials /\ [][NextCredentials]_vars

(***************************************************************************)
(* MediaType._parse on a raw media range                                   *)
(***************************************************************************)
\* blanks, a type, `/` or nothing, a subtype with or without blanks, and
\* parameters
RawMedia ==
  {lead \o t \o sl \o st \o ps :
     lead \in {<<>>, <<" ">>},
     t \in {<<"t">>, <<>>, <<"*">>},
     sl \in {<<"/">>, <<>>},
     st \in {<<"h">>, <<>>, <<" ">>, <<"*">>, <<" ", "h">>},
     ps \in {<<>>, <<";", "q", "=", "0", ".", "5">>, <<" ", ";", "q", "=", "1">>}}

InitParse ==
  /\ fn = "MediaType._parse"
  /\ args \in [raw : RawMedia]
  /\ result = Pending
  /\ ModuleLoaded

CallMediaTypeParse ==
  /\ fn = "MediaType._parse"
  /\ result = Pending
  /\ result' = MediaType_parse(args.raw)
  /\ UNCHANGED <<fn, args, statuslines, workers>>

NextParse == CallMediaTypeParse

SpecParse == InitParse /\ [][NextParse]_vars

(***************************************************************************)
(* Claims about AcceptList.match and parse_accept                          *)
(***************************************************************************)
\* the (candidate index i, entry index j) pairs where entry j matches c_i
MatchingPairs(self, mimes) ==
  {pr \in (1..Len(mimes)) \X (1..Len(self)) :
     LET m == MediaType_match(self[pr[2]], mimes[pr[1]], TRUE, TRUE)
     IN ~IsRaise(m) /\ ~IsNone(m)}

PairKey(self, pr) == <<FloatNeg(self[pr[2]].q), pr[1], pr[2]>>

\* lexicographic order of two keys (-q, i, j), strictly
KeyBefore(a, b) ==
  \/ FloatLT(a[1], b[1])
  \/ /\ FloatEQ(a[1], b[1])
     /\ (a[2] < b[2] \/ (a[2] = b[2] /\ a[3] < b[3]))

S_th == <<"t", "/", "h">>

S_aj == <<"a", "/", "j">>

TieHeader ==
  <<"t", "/", "h", ";", "q", "=", "0", ".", "5", ",",
    "a", "/", "j", ";", "q", "=", "0", ".", "5">>

\* C1: AcceptList.match returns the candidate of a matching pair (i, j) and
\* that pair's entry as m, and no other matching pair has a smaller key
\* (-q_j, i, j): higher q first, then the earlier candidate, then the
\* earlier entry; without a matching pair the result is the empty Matched.
\* On the header t/h;q=0.5,a/j;q=0.5 the earlier candidate wins.
C1_BestPair ==
  (fn = "AcceptList.match" /\ result.kind = "return") =>
    LET P == MatchingPairs(args.self, args.mimes) IN
      /\ P = {} => result.val = Matched(<<>>, None)
      /\ P # {} =>
           \E pr \in P :
             /\ result.val = Matched(args.mimes[pr[1]], args.self[pr[2]])
             /\ \A other \in P :
                  ~KeyBefore(PairKey(args.self, other), PairKey(args.self, pr))
      /\ (args.accept = TieHeader /\ args.mimes = <<S_aj, S_th>>)
           => result.val.mime = S_aj
      /\ (args.accept = TieHeader /\ args.mimes = <<S_th, S_aj>>)
           => result.val.mime = S_th

\* the same statement for lists in which every q is a number
C1_BestPairNumericQ ==
  (fn = "AcceptList.match"
     /\ \A j \in 1..Len(args.self) : ~args.self[j].q.nan)
    => C1_BestPair

\* the permutations of 1..n
Perms(n) == {f \in [1..n -> 1..n] : \A a, b \in 1..n : f[a] = f[b] => a = b}

\* C2: the list parse_accept returns holds exactly the header's
\* comma-separated media types, no entry stands before one of greater q, and
\* entries of equal q keep their order in the header; the empty header gives
\* the empty list.
C2_SortedStable ==
  (fn = "parse_accept" /\ result.kind = "return") =>
    LET out == result.val
        mtypes == split(args.accept, ",")
    IN
      IF args.accept = <<>> THEN out = <<>>
      ELSE
        /\ Len(out) = Len(mtypes)
        /\ \E f \in Perms(Len(out)) :
             /\ \A k \in 1..Len(out) :
                  Return(out[k]) = MediaType_parse(mtypes[f[k]])
             /\ \A k, l \in 1..Len(out) :
                  (k < l /\ FloatEQ(out[k].q, out[l].q)) => f[k] < f[l]
        /\ \A k, l \in 1..Len(out) : k < l => ~FloatLT(out[k].q, out[l].q)

\* the same statement for headers in which every q is a number
C2_SortedStableNumericQ ==
  (fn = "parse_accept" /\ result.kind = "return"
     /\ \A k \in 1..Len(result.val) : ~result.val[k].q.nan)
    => C2_SortedStable

\* a decimal literal: digits with at most one point
IsDecimal(s) ==
  /\ s # <<>>
  /\ \A i \in 1..Len(s) : s[i] \in Digits \cup {"."}
  /\ Cardinality({i \in 1..Len(s) : s[i] = "."}) <= 1
  /\ \E i \in 1..Len(s) : s[i] \in Digits

\* an element that is no media type: no `/`, an empty type or subtype, a
\* parameter without `=`, or a q that is no number
Malformed(element) ==
  LET pieces == split(strip(element), ";")
      media == pieces[1]
      slash == find(media, "/")
      params == Tail(pieces)
      IsQ(k) == find(params[k], "=") > 0
                /\ strip(split1(params[k], "=")[1]) = S_q
      qs == {k \in 1..Len(params) : IsQ(k)}
  IN
    \/ slash = 0
    \/ slash = 1
    \/ slash = Len(media)
    \/ \E k \in 1..Len(params) : find(params[k], "=") = 0
    \/ /\ qs # {}
       /\ LET last == CHOOSE k \in qs : \A k2 \in qs : k2 <= k
          IN ~IsDecimal(strip(split1(params[last], "=")[2]))

\* C5: parse_accept returns a list or raises InvalidHeader, nothing else,
\* and a header with a malformed element raises InvalidHeader.
C5_OnlyInvalidHeader ==
  (fn = "parse_accept" /\ result # Pending) =>
    /\ IsRaise(result) => result.exc = "InvalidHeader"
    /\ (args.accept # <<>>
          /\ \E k \in 1..Len(split(args.accept, ",")) :
               Malformed(split(args.accept, ",")[k]))
         => result = Raise("InvalidHeader")

\* the part of C5 that the code keeps: an element without `/`, with an empty
\* type or subtype, with a parameter without `=` or with a q that float()
\* rejects never yields a list
C5_NeverAListWhenRejected ==
  (fn = "parse_accept" /\ result # Pending
     /\ args.accept # <<>>
     /\ \E k \in 1..Len(split(args.accept, ",")) :
          MediaType_parse(split(args.accept, ",")[k]) = Raise("ValueError"))
    => IsRaise(result)

(***************************************************************************)
(* Claims about MediaType.match                                            *)
(***************************************************************************)
SelfMT == MediaType_parse(args.self).val

OtherMT == MediaType_parse(args.media_type).val

\* the fields agree, a `*` on either side agreeing with anything
FieldsAgree ==
  /\ (SelfMT.subtype = OtherMT.subtype
        \/ SelfMT.subtype = S_star \/ OtherMT.subtype = S_star)
  /\ (SelfMT.type_ = OtherMT.type_
        \/ SelfMT.type_ = S_star \/ OtherMT.type_ = S_star)

MatchReturned == fn = "MediaType.match" /\ result # Pending

\* C3: with both flags true, match returns self exactly when subtype and type
\* each are equal or `*` on either side, and None otherwise.
C3_WildcardBothWays ==
  (MatchReturned /\ args.allow_type_wildcard /\ args.allow_subtype_wildcard) =>
    IF FieldsAgree THEN result = Return(SelfMT) ELSE result = ReturnNone

\* text/html matched against */* returns self
C3_Witness ==
  /\ MatchReturned /\ args.allow_type_wildcard /\ args.allow_subtype_wildcard
  /\ args.self = <<"t", "/", "h">>
  /\ args.media_type = <<"*", "/", "*">>
  /\ result = Return(SelfMT)

\* C4 as stated: a false flag refuses only `*` against `*` on its field, so
\* t/* against t/h with allow_subtype_wildcard false returns self.
C4_OnlyStarVsStar ==
  MatchReturned =>
    IF /\ FieldsAgree
       /\ (args.allow_type_wildcard
             \/ ~(SelfMT.type_ = S_star /\ OtherMT.type_ = S_star))
       /\ (args.allow_subtype_wildcard
             \/ ~(SelfMT.subtype = S_star /\ OtherMT.subtype = S_star))
      THEN result = Return(SelfMT)
      ELSE result = ReturnNone

\* C4 amended: a false flag refuses every match in which its field is `*` on
\* either side; when neither side's field is `*` the flag changes nothing.
C4_FlagForbidsAnyWildcard ==
  (MatchReturned
     /\ ~(args.allow_type_wildcard /\ args.allow_subtype_wildcard)) =>
    LET typeStar == SelfMT.type_ = S_star \/ OtherMT.type_ = S_star
        subStar == SelfMT.subtype = S_star \/ OtherMT.subtype = S_star
    IN
      /\ (~args.allow_type_wildcard /\ typeStar) => result = ReturnNone
      /\ (~args.allow_subtype_wildcard /\ subStar) => result = ReturnNone
      /\ ((args.allow_type_wildcard \/ ~typeStar)
            /\ (args.allow_subtype_wildcard \/ ~subStar))
           => IF FieldsAgree THEN result = Return(SelfMT)
                             ELSE result = ReturnNone

\* t/* against t/h with allow_subtype_wildcard false returns None
C4_Witness ==
  /\ MatchReturned
  /\ args.allow_type_wildcard /\ ~args.allow_subtype_wildcard
  /\ args.self = <<"t", "/", "*">>
  /\ args.media_type = <<"t", "/", "h">>
  /\ result = ReturnNone

(***************************************************************************)
(* Claims about parse_forwarded                                            *)
(***************************************************************************)
ForwardedReturned == fn = "parse_forwarded" /\ result # Pending

JoinedForwarded == join(<<",">>, args.headers["forwarded"])

\* a value without the double quotes around it
Unquoted(v) ==
  IF Len(v) >= 2 /\ Head(v) = "\"" /\ v[Len(v)] = "\""
    THEN SubSeq(v, 2, Len(v) - 1)
    ELSE v

\* the clauses of a header: the `;`-separated key=value pieces of its
\* `,`-separated elements, as <<key, value>>
ClausesOf(header) ==
  {<<lower(strip(split1(c, "=")[1])), Unquoted(strip(split1(c, "=")[2]))>> :
     c \in {cl \in UNION {{split(e, ";")[k] : k \in 1..Len(split(e, ";"))} :
                           e \in {split(header, ",")[k] :
                                    k \in 1..Len(split(header, ","))}} :
              find(cl, "=") > 0}}

\* C6: parse_forwarded returns a result other than None only if the header is
\* present, a non-empty secret is configured, and a clause of the joined
\* header has key secret or by and a value equal to the secret.
C6_TrustOnlyExactSecret ==
  (ForwardedReturned /\ ~IsNone(result)) =>
    /\ "forwarded" \in DOMAIN args.headers
    /\ args.config.FORWARDED_SECRET # <<>>
    /\ \E cl \in ClausesOf(JoinedForwarded) :
         cl[1] \in {S_secret, S_by} /\ cl[2] = args.config.FORWARDED_SECRET

\* the part of C6 that the code keeps: no header, no secret, or a secret
\* that is no substring of the header gives None
C6_FastRejection ==
  (ForwardedReturned
     /\ (\/ "forwarded" \notin DOMAIN args.headers
         \/ args.config.FORWARDED_SECRET = <<>>
         \/ ~contains(JoinedForwarded, args.config.FORWARDED_SECRET)))
    => IsNone(result)

\* parse_forwarded on a header made of this one line
ParseLine(line) ==
  parse_forwarded([n \in {"forwarded"} |-> <<line>>], args.config)

\* the elements of the joined header; no quoted value of ForwardedClauses
\* holds a comma, so every comma ends an element
ForwardedElements == split(JoinedForwarded, ",")

\* the elements that parse_forwarded trusts when they stand alone
TrustedElements ==
  {k \in 1..Len(ForwardedElements) : ~IsNone(ParseLine(ForwardedElements[k]))}

RightmostTrusted == CHOOSE k \in TrustedElements : \A k2 \in TrustedElements : k2 <= k

\* the header from element k on
ForwardedFrom(k) ==
  join(<<",">>, SubSeq(ForwardedElements, k, Len(ForwardedElements)))

\* what may replace the elements to the left of the trusted one
LeftContents ==
  {<<"f", "o", "r", "=", "b">>,
   <<"s", "e", "c", "r", "e", "t", "=", "x">>,
   <<"f", "o", "r", "=", "b", ";", "b", "y", "=", "x">>,
   <<"s", "e", "c", "r", "e", "t", "=", "x", "@", ";">>}

ExampleForwarded ==
  <<"f", "o", "r", "=", "1", ".", "2", ".", "3", ".", "4", ";",
    "s", "e", "c", "r", "e", "t", "=", "a", "b", "c", ",", " ",
    "f", "o", "r", "=", "5", ".", "6", ".", "7", ".", "8", ";",
    "s", "e", "c", "r", "e", "t", "=", "x", "y", "z">>

ExampleResult ==
  <<<<S_for, <<"5", ".", "6", ".", "7", ".", "8">>>>,
    <<S_secret, <<"x", "y", "z">>>>>>

ExampleOutcome ==
  parse_forwarded([n \in {"forwarded"} |-> <<ExampleForwarded>>],
                  [FORWARDED_SECRET |-> <<"x", "y", "z">>])

XReturned == fn = "parse_xforwarded" /\ result # Pending

\* all forwarded-for lines joined, split on `,`, trimmed, empty ones dropped
XEntries ==
  IF "x-forwarded-for" \notin DOMAIN args.headers THEN <<>>
  ELSE
    LET parts == split(join(<<",">>, args.headers["x-forwarded-for"]), ",")
    IN SelectSeq([k \in 1..Len(parts) |-> strip(parts[k])],
                 LAMBDA e : e # <<>>)

\* the value of the configured real-IP header, <<>> when there is none
RealIpValue ==
  IF /\ args.config.REAL_IP_HEADER # ""
     /\ args.config.REAL_IP_HEADER \in DOMAIN args.headers
    THEN args.headers[args.config.REAL_IP_HEADER][1]
    ELSE <<>>

\* the address the claim resolves, NoneStr when it resolves none
ExpectedAddr ==
  LET N == args.config.PROXIES_COUNT IN
    IF RealIpValue # <<>> THEN RealIpValue
    ELSE IF N > 0 /\ N <= Len(XEntries) THEN XEntries[Len(XEntries) - N + 1]
    ELSE NoneStr

ExampleXOutcome ==
  parse_xforwarded(
    [n \in {"x-forwarded-for"} |->
       <<<<"1", ".", "1", ".", "1", ".", "1", ",", " ",
           "2", ".", "2", ".", "2", ".", "2">>>>],
    [REAL_IP_HEADER |-> "", PROXIES_COUNT |-> 1,
     FORWARDED_FOR_HEADER |-> "x-forwarded-for"])

\* C8: the address of parse_xforwarded is the value of the configured
\* real-IP header when it has one; otherwise, with PROXIES_COUNT = N > 0, the
\* N-th entry from the end of the forwarded-for entries; with N above the
\* number of entries, no forwarded-for header, or N = 0, nothing is resolved
\* and the function returns None whatever the other headers hold.  The
\* result carries the address, normalized, as its `for` field.  N = 1 with
\* 1.1.1.1, 2.2.2.2 gives 2.2.2.2.
C8_AddressResolution ==
  /\ ExampleXOutcome = Return(<<<<S_for, <<"2", ".", "2", ".", "2", ".", "2">>>>>>)
  /\ XReturned =>
       IF ExpectedAddr = NoneStr THEN IsNone(result)
       ELSE
         /\ result.kind = "return"
         /\ LET c == fwd_normalize_address(ExpectedAddr) IN
              IF IsRaise(c) THEN S_for \notin DictKeys(result.val)
              ELSE DictGet(result.val, S_for, NoneStr) = c.val

\* three entries over the lines, N = 1, no real-IP value: the last entry
C8_Witness ==
  /\ XReturned
  /\ RealIpValue = <<>>
  /\ args.config.PROXIES_COUNT = 1
  /\ Len(XEntries) = 3
  /\ XEntries[1] # XEntries[3]
  /\ result.kind = "return"
  /\ DictGet(result.val, S_for, NoneStr) = lower(XEntries[3])

\* C9: when an address is resolved, proto is the lower-cased x-forwarded-proto
\* whenever that header is present, else the lower-cased x-scheme when that
\* one is present, and is absent when neither is.
C9_ProtoPrecedence ==
  (XReturned /\ ~IsNone(result)) =>
    LET h == args.headers
        d == result.val
    IN
      IF "x-forwarded-proto" \in DOMAIN h
        THEN /\ S_proto \in DictKeys(d)
             /\ DictGet(d, S_proto, NoneStr) = lower(h["x-forwarded-proto"][1])
      ELSE IF "x-scheme" \in DOMAIN h
        THEN /\ S_proto \in DictKeys(d)
             /\ DictGet(d, S_proto, NoneStr) = lower(h["x-scheme"][1])
      ELSE S_proto \notin DictKeys(d)

\* x-scheme HTTPS and x-forwarded-proto Http: proto is http
C9_Witness ==
  /\ XReturned
  /\ "x-scheme" \in DOMAIN args.headers
  /\ "x-forwarded-proto" \in DOMAIN args.headers
  /\ args.headers["x-scheme"] = <<S_HTTPS>>
  /\ args.headers["x-forwarded-proto"] = <<S_Http>>
  /\ result.kind = "return"
  /\ DictGet(result.val, S_proto, NoneStr) = <<"h", "t", "t", "p">>

(***************************************************************************)
(* Claims about the four parsers together                                  *)
(***************************************************************************)
\* the fields of fields that have a value and whose conversion succeeds
Convertible(fields) ==
  {i \in 1..Len(fields) :
     fields[i][2] # NoneStr /\ ~IsRaise(NormalizeField(fields[i][1], fields[i][2]))}

\* d holds exactly the convertible fields, each key with its last
\* convertible value
FieldsKept(fields, d) ==
  /\ DictKeys(d) = {fields[i][1] : i \in Convertible(fields)}
  /\ \A key \in DictKeys(d) :
       LET is == {i \in Convertible(fields) : fields[i][1] = key}
           last == CHOOSE i \in is : \A i2 \in is : i2 <= i
       IN DictGet(d, key, NoneStr) = NormalizeField(key, fields[last][2]).val

\* the keys of the convertible clauses of a header of one element
ConvertibleKeys(header) ==
  {cl[1] : cl \in {c \in ClausesOf(header) : ~IsRaise(NormalizeField(c[1], c[2]))}}

\* every clause of the header is token=token or token="token"
WellFormedClauses(header) ==
  \A cl \in ClausesOf(header) :
    \A part \in {cl[1], cl[2]} :
      part # <<>> /\ \A i \in 1..Len(part) : part[i] \in TokenChars

\* C10: with PROXIES_COUNT >= 0, parse_forwarded, parse_xforwarded,
\* fwd_normalize and parse_content_header return (None, a mapping or a tuple)
\* and never raise; a field whose conversion fails is left out of the result
\* and every other field of the input is returned (for parse_forwarded:
\* of a header of one element made of well-formed clauses).
C10_NeverRaises ==
  result # Pending =>
    /\ ~IsRaise(result)
    /\ fn = "fwd_normalize" =>
         result.kind = "return" /\ FieldsKept(args.fwd, result.val)
    /\ fn = "parse_xforwarded" =>
         \/ IsNone(result)
         \/ /\ result.kind = "return"
            /\ FieldsKept(options(args.headers, ExpectedAddr), result.val)
    /\ fn = "parse_content_header" =>
         result.kind = "return" /\ Len(result.val) = 2
    /\ fn = "parse_forwarded" =>
         \/ IsNone(result)
         \/ /\ result.kind = "return"
            /\ (find(JoinedForwarded, ",") = 0
                  /\ WellFormedClauses(JoinedForwarded)) =>
                 DictKeys(result.val) = ConvertibleKeys(JoinedForwarded)

\* port=a before host=H given to fwd_normalize: host alone is returned
C10_Witness ==
  /\ fn = "fwd_normalize"
  /\ args.fwd = <<<<S_port, <<"a">>>>, <<S_host, <<"H">>>>>>
  /\ result = Return(<<<<S_host, <<"h">>>>>>)

(***************************************************************************)
(* Claims about fwd_normalize                                              *)
(***************************************************************************)
NormalizeReturned == fn = "fwd_normalize" /\ result # Pending

\* a bare IPv6 literal: three to eight groups of at most four hex digits
\* between colons
IsBareIPv6(v) ==
  LET groups == split(v, ":") IN
    /\ Len(groups) \in 3..8
    /\ \A g \in 1..Len(groups) :
         Len(groups[g]) <= 4 /\ \A i \in 1..Len(groups[g]) : groups[g][i] \in HexDigits

\* the stored form of an address other than unknown
StoredAddress(v) ==
  IF v # <<>> /\ Head(v) = "_" THEN v
  ELSE IF IsBareIPv6(v) THEN <<"[">> \o lower(v) \o <<"]">>
  ELSE lower(v)

ItemsReturned == fn = "fwd_normalize(items)" /\ result # Pending

\* C14: fwd_normalize applied to the items of a mapping it returned gives a
\* mapping equal to that mapping, for every kind of field.
C14_Idempotent ==
  ItemsReturned => result = Return(args.fwd)

\* a value that a second normalization reads differently: a path that still
\* holds a percent escape, an address that has become unknown
Renormalizable(d) ==
  \E i \in 1..Len(d) :
    \/ d[i][1] = S_path /\ unquote(d[i][2]) # d[i][2]
    \/ d[i][1] \in {S_for, S_by} /\ d[i][2] = S_unknown

\* the part of C14 that the code keeps: a mapping without such a value is
\* returned unchanged
C14_IdempotentOtherwise ==
  (ItemsReturned /\ ~Renormalizable(args.fwd)) => result = Return(args.fwd)

(***************************************************************************)
(* Claims about format_http1_response and the status-line table            *)
(***************************************************************************)
\* the decimal form of the modelled status codes
Decimal(status) ==
  CASE status = 0 -> <<"0">>
    [] status = 200 -> <<"2", "0", "0">>
    [] status = 999 -> <<"9", "9", "9">>

\* the reason phrase of a status code
Reason(status) == IF status = 200 THEN <<"O", "K">> ELSE S_UNKNOWN

\* <name>: <value>\r\n for each pair, in order
RECURSIVE ExpectedHeaderLines(_)
ExpectedHeaderLines(headers) ==
  IF headers = <<>> THEN <<>>
  ELSE Head(headers)[1] \o <<":", " ">> \o Head(headers)[2] \o <<"\r", "\n">>
         \o ExpectedHeaderLines(Tail(headers))

ExpectedResponse(status, headers) ==
  <<"H", "T", "T", "P", "/", "1", ".", "1", " ">> \o Decimal(status) \o <<" ">>
    \o Reason(status) \o <<"\r", "\n">>
    \o ExpectedHeaderLines(headers) \o <<"\r", "\n">>

S_ContentLength ==
  <<"C", "o", "n", "t", "e", "n", "t", "-", "L", "e", "n", "g", "t", "h">>

ExampleResponse ==
  <<"H", "T", "T", "P", "/", "1", ".", "1", " ", "2", "0", "0", " ", "O", "K",
    "\r", "\n",
    "C", "o", "n", "t", "e", "n", "t", "-", "L", "e", "n", "g", "t", "h", ":",
    " ", "5", "\r", "\n", "\r", "\n">>

ExampleFormatOutcome ==
  format_http1_response(200, <<<<S_ContentLength, <<"5">>>>>>)

\* C12: for 0 <= status < 1000 a call of format_http1_response returns the
\* status line HTTP/1.1 <status> <reason>\r\n (UNKNOWN for a code without a
\* reason), then <name>: <value>\r\n for each header pair in the given order,
\* duplicates kept, then \r\n.  (200, [(Content-Length, 5)]) gives
\* HTTP/1.1 200 OK\r\nContent-Length: 5\r\n\r\n.
C12_ResponseFormat ==
  /\ ExampleFormatOutcome = Return(ExampleResponse)
  /\ \A w \in Workers :
       (workers[w].pc = "returned"
          /\ 0 <= workers[w].status /\ workers[w].status < 1000)
         => workers[w].ret = ExpectedResponse(workers[w].status, workers[w].headers)

\* a returned call with status 999 and the same header pair twice
C12_Witness ==
  \E w \in Workers :
    /\ workers[w].pc = "returned"
    /\ workers[w].status = 999
    /\ Len(workers[w].headers) = 2
    /\ workers[w].headers[1] = workers[w].headers[2]
    /\ workers[w].ret = ExpectedResponse(999, workers[w].headers)

\* C16: the status-line table keeps its built entries through any calls of
\* format_http1_response, one after another or interleaved, and what a call
\* returns is what it returns when run alone on its own status and headers.
C16_TableImmutable ==
  /\ statuslines = HTTP1_STATUSLINES
  /\ \A w \in Workers :
       workers[w].pc = "returned" =>
         Return(workers[w].ret)
           = format_http1_response(workers[w].status, workers[w].headers)

\* one worker has returned while the other, on the same table entry with
\* other headers, is in the middle of its loop
C16_Witness ==
  \E w1, w2 \in Workers :
    /\ workers[w1].pc = "returned"
    /\ workers[w2].pc = "loop"
    /\ workers[w2].h = 2
    /\ workers[w1].index = workers[w2].index
    /\ workers[w1].headers # workers[w2].headers
    /\ statuslines[workers[w1].index] = StatusLine(workers[w1].index)

(***************************************************************************)
(* Claims about parse_credentials                                          *)
(***************************************************************************)
CredentialsReturned == fn = "parse_credentials" /\ result # Pending

\* the prefixes that are scanned
ScannedPrefixes ==
  IF "prefixes" \in DOMAIN args /\ args.prefixes # <<>>
    THEN args.prefixes
    ELSE <<S_Basic, S_Bearer, S_Token>>

\* the positions of the header where p begins
Occurrences(header, p) ==
  {i \in 1..(Len(header) - Len(p) + 1) : SubSeq(header, i, i + Len(p) - 1) = p}

\* the text after the first occurrence of p
AfterFirst(header, p) ==
  LET first == CHOOSE i \in Occurrences(header, p) :
                 \A i2 \in Occurrences(header, p) : i <= i2
  IN SubSeq(header, first + Len(p), Len(header))

\* C13: for a header None the result is (None, None); otherwise the first of
\* the prefixes, in their given order (default Basic, Bearer, Token), that
\* occurs in the header gives (prefix, the trimmed text after its first
\* occurrence), whatever the positions in the header; when none occurs the
\* result is (None, header).  Bearer abc123 gives (Bearer, abc123) and
\* opaque-value gives (None, opaque-value).
C13_PrefixOrder ==
  /\ parse_credentials(
       <<"B", "e", "a", "r", "e", "r", " ", "a", "b", "c", "1", "2", "3">>, <<>>)
       = Return(<<S_Bearer, <<"a", "b", "c", "1", "2", "3">>>>)
  /\ CredentialsReturned =>
       IF args.header = NoneStr THEN result = Return(<<NoneStr, NoneStr>>)
       ELSE
         LET ps == ScannedPrefixes
             found == {k \in 1..Len(ps) : Occurrences(args.header, ps[k]) # {}}
         IN
           IF found = {} THEN result = Return(<<NoneStr, args.header>>)
           ELSE
             LET k == CHOOSE k1 \in found : \A k2 \in found : k1 <= k2 IN
               result = Return(<<ps[k], strip(AfterFirst(args.header, ps[k]))>>)

\* Token Basic x with the default prefixes: Basic wins though Token is first
\* in the header
C13_Witness ==
  /\ CredentialsReturned
  /\ args.header
       = <<"T", "o", "k", "e", "n", " ", "B", "a", "s", "i", "c", " ", "x">>
  /\ "prefixes" \notin DOMAIN args
  /\ result = Return(<<S_Basic, <<"x">>>>)

(***************************************************************************)
(* Claims about MediaType._parse                                           *)
(***************************************************************************)
ParseReturned == fn = "MediaType._parse" /\ result # Pending

\* the text before the first `;`
MediaPart == split(args.raw, ";")[1]

\* the type or the subtype part is missing or holds only whitespace
PartMissing ==
  LET parts == split1(MediaPart, "/") IN
    \/ Len(parts) # 2
    \/ strip(parts[1]) = <<>>
    \/ strip(parts[2]) = <<>>

\* C15: a MediaType made by MediaType._parse has a non-empty type_ and a
\* non-empty subtype, and a raw text whose type or subtype part (before any
\* `;`) is missing or only whitespace is rejected as an error.
C15_NonEmptyParts ==
  ParseReturned =>
    /\ result.kind = "return" =>
         result.val.type_ # <<>> /\ result.val.subtype # <<>>
    /\ PartMissing => IsRaise(result)

\* the part of C15 that the code keeps: the type_ is never empty, and a
\* subtype is empty only when blanks and then `;` follow the `/`
C15_EmptySubtypeOnlyBeforeParams ==
  (ParseReturned /\ result.kind = "return") =>
    /\ result.val.type_ # <<>>
    /\ result.val.subtype = <<>> => find(args.raw, ";") > 0

====
